---- MODULE Spec2Model ----
(***************************************************************************)
(* EduGrade grading platform: the persisted Submission document, the       *)
(* approval / override / report handlers of api/approvals.py, the status   *)
(* and delete endpoints of api/submissions.py, process_submission of       *)
(* main.py, the stage agents SegmentationAgent / GradingAgent working on  *)
(* a GradingState, the fact-check and preprocessing agents working on      *)
(* lists, and a run of the graph of graph/workflow.py.                     *)
(*                                                                         *)
(* Granularity: every awaited call on the document store is one atomic     *)
(* step; the code between two awaits runs on the single event loop and is  *)
(* folded into the step that follows it.  A handler that reads the         *)
(* submission only to answer 404 and then writes without using what it     *)
(* read (the status and delete endpoints) is one step, taken at its write. *)
(* A read of the store may return nothing and a write may be refused.      *)
(* The fact-check agent suspends at session.post, at response.json() and   *)
(* at asyncio.sleep; each resumption is one step, and the tasks of a batch *)
(* are resumed in any order.  A run of the workflow graph awaits nothing   *)
(* between its nodes and is one step.                                      *)
(*                                                                         *)
(* Numbers: persisted scores are integers; the grades of a GradingState    *)
(* and the values of a single grading are in tenths of a mark.  A          *)
(* percentage is kept in units of 1/10000 of a percent, truncated (75.0 %  *)
(* is 750000), so that the unrounded value total/max*100 and its 2-decimal *)
(* rounding are different numbers.                                         *)
(***************************************************************************)
EXTENDS Integers, Sequences, FiniteSets, TLC

\* ------------------------------------------------------------------ bounds
\* the largest override.new_score tried (the largest max_score in use is 2)
MaxNewScore == 2
\* number of stage invocations made on one GradingState
MaxCalls == 3
\* largest number of boxes / contours one detection returns
MaxBoxes == 2
\* longest list handed to an agent that works entry by entry
MaxResults == 3

None == "None"

\* the handler slots: two requests may be in flight on the submission at once
Procs == {1, 2}

\* ------------------------------------------------------------ input domains
\* the teacher identity override_grade receives:  Depends(lambda: "teacher_id")
OverrideTeacher == "teacher_id"

TeacherIds == {"teacher_id", "teacher_001"}

StudentIds == {"student_001", "student_002"}

\* the five statuses of the spec's enum
EnumStatuses == {"uploaded", "processing", "pending_review", "approved", "error"}

\* SubmissionStatus.status is an unconstrained str: the enum plus one other word
StatusInputs == EnumStatuses \cup {"archived"}

\* a successfully graded question as GradingAgent.process / fact_check_answers emit it
OkResult(q, s, m) ==
    [question_number |-> q, score |-> s, max_score |-> m, status |-> "success",
     feedback |-> "ai", teacher_override |-> FALSE, override_reason |-> None]

\* a question whose grading raised: only question_number, status and error are
\* present, so r.get('score', 0) and r.get('max_score', 0) read 0
ErrResult(q) ==
    [question_number |-> q, score |-> 0, max_score |-> 0, status |-> "error",
     feedback |-> None, teacher_override |-> FALSE, override_reason |-> None]

\* result lists handed to store_grading_results
ResultInputs ==
    { <<OkResult(1, 1, 1), OkResult(2, 1, 1), OkResult(3, 1, 2)>>,
      <<ErrResult(1), OkResult(2, 1, 3)>> }

\* GradeOverride bodies: question 3 exists only in the first result list, and
\* question 1 failed grading in the second
OverrideInputs ==
    [question_number : {1, 3}, new_score : {MaxNewScore},
     new_feedback : {"teacher"}, reason : {"generous grading"}]

\* ApprovalRequest.overrides: None / empty, or a list of one override
OverrideLists == {<<>>} \cup { <<o>> : o \in OverrideInputs }

\* outcome of the awaited document update of _apply_teacher_overrides:
\* returns, raises before writing, or raises after the write went through
\* (the update call runs before its result is awaited)
UpdateOutcomes == {"ok", "fail", "applied_raise"}

VARIABLES
    doc,        \* the persisted submission document
    pc,         \* per handler slot: where the request is
    req,        \* per handler slot: the request being served
    loc,        \* per handler slot: the update prepared by _apply_teacher_overrides
    resp,       \* per handler slot: the response sent in the step just taken
    stage_log,  \* per handler slot: stage calls made by the current pipeline run
    report,     \* the parent report answered in the step just taken
    state,      \* the GradingState handed to a stage agent
    entry,      \* the GradingState as it was when the last stage call began
    last_call,  \* the stage agent called last
    calls,      \* number of stage invocations made so far
    scoring,    \* what one call of _grade_single_answer meets: key and AI response
    grade,      \* what that call returned
    job,        \* the per-item operation under way: its inputs and its progress
    out         \* the list that operation returned, once it has returned

vars == <<doc, pc, req, loc, resp, stage_log, report, state, entry, last_call, calls,
          scoring, grade, job, out>>

approval_vars == <<doc, pc, req, loc, resp, stage_log, report>>

grade_vars == <<scoring, grade>>

item_vars == <<job, out>>

stage_vars == <<state, entry, last_call, calls, scoring, grade, job, out>>

\* ------------------------------------------------------------- aggregation
RECURSIVE SumField(_, _)
\* sum(r.get(field, 0) for r in results if r.get('status') == 'success')
SumField(results, field) ==
    IF results = <<>> THEN 0
    ELSE (IF Head(results).status = "success"
            THEN (IF field = "score" THEN Head(results).score ELSE Head(results).max_score)
            ELSE 0)
         + SumField(Tail(results), field)

\* (total_score / max_score * 100) if max_score > 0 else 0, in 1/10000 percent
Percentage(total, max) ==
    IF max > 0 THEN (total * 1000000) \div max ELSE 0

\* total_score / max_score * 100 is a decimal tie: exactly halfway between two
\* values of two decimals
PercentageTie(total, max) ==
    /\ max > 0
    /\ (total * 1000000) % max = 0
    /\ Percentage(total, max) % 100 = 50

\* round(percentage, 2): the values the call can return for a percentage
\* whose exact value, truncated to 1/10000 percent, is x.  Python rounds the
\* binary float: off a tie that is the nearest value of two decimals; on a
\* decimal tie the float computed by total / max * 100 lies on the tie (then
\* half goes to even) or a last bit to either side of it, so both neighbours
\* are outcomes (1/800*100 gives 0.12, 107/4000*100 gives 2.67, 3/32*100
\* gives 9.38)
Round2(x, tie) ==
    IF tie THEN {x - 50, x + 50} ELSE {((x + 50) \div 100) * 100}

\* --------------------------------------------------- _apply_teacher_overrides
RECURSIVE ApplyOverride(_, _)
\* the inner loop: the first result whose question_number matches is rewritten
ApplyOverride(results, override) ==
    IF results = <<>> THEN <<>>
    ELSE IF Head(results).question_number = override.question_number
         THEN <<[Head(results) EXCEPT !.score = override.new_score,
                                      !.feedback = override.new_feedback,
                                      !.teacher_override = TRUE,
                                      !.override_reason = override.reason]>>
              \o Tail(results)
         ELSE <<Head(results)>> \o ApplyOverride(Tail(results), override)

RECURSIVE ApplyOverrides(_, _)
\* the outer loop over the overrides of one request, in request order
ApplyOverrides(results, overrides) ==
    IF overrides = <<>> THEN results
    ELSE ApplyOverrides(ApplyOverride(results, Head(overrides)), Tail(overrides))

\* _apply_teacher_overrides with the totals taken from the list as it was read
OverrideUpdate_stale(results, overrides) ==
    LET new == ApplyOverrides(results, overrides)
        total == SumField(results, "score")
        max == SumField(results, "max_score")
    IN [results |-> new, total_score |-> total, max_score |-> max,
        percentage |-> Percentage(total, max)]

\* the fields _apply_teacher_overrides writes, computed from the results it read
OverrideUpdate(results, overrides) ==
    LET new == ApplyOverrides(results, overrides)
        total == SumField(new, "score")
        max == SumField(new, "max_score")
    IN [results |-> new, total_score |-> total, max_score |-> max,
        percentage |-> Percentage(total, max)]

NoUpdate == [results |-> <<>>, total_score |-> 0, max_score |-> 0, percentage |-> 0]

NoRequest == [kind |-> "none", teacher_id |-> None, student_id |-> None, overrides |-> <<>>]

\* ------------------------------------------------------ the stored document
\* create_submission: status 'uploaded', no results, no approval stamp
NewSubmission(teacher, student) ==
    [exists |-> TRUE,
     status |-> "uploaded", teacher_id |-> teacher, student_id |-> student,
     has_results |-> FALSE, results |-> <<>>,
     total_score |-> 0, max_score |-> 0, percentage |-> 0,
     approved_by |-> None, approved_at |-> None,
     teacher_overrides_applied |-> FALSE]

\* the record is gone from the store: get_submission returns None, and every
\* update of it raises
NoDocument ==
    [NewSubmission(None, None) EXCEPT !.exists = FALSE, !.status = None]

\* FirebaseService.store_grading_results: the update it sends
StoredGrading(d, results) ==
    LET total == SumField(results, "score")
        max == SumField(results, "max_score")
    IN [d EXCEPT !.has_results = TRUE, !.results = results,
                 !.total_score = total, !.max_score = max,
                 !.percentage = Percentage(total, max),
                 !.status = "graded"]

\* FirebaseService.update_submission_status: the update it sends
StatusUpdated(d, status) == [d EXCEPT !.status = status]

\* FirebaseService.approve_submission: the update it sends
Approved(d, teacher) ==
    [d EXCEPT !.status = "approved", !.approved_by = teacher, !.approved_at = "set"]

\* the document update of _apply_teacher_overrides without the results list
OverridesWritten_totals_only(d, u) ==
    [d EXCEPT !.has_results = TRUE,
              !.total_score = u.total_score, !.max_score = u.max_score,
              !.percentage = u.percentage, !.teacher_overrides_applied = TRUE]

\* the document update at the end of _apply_teacher_overrides
OverridesWritten(d, u) ==
    [d EXCEPT !.has_results = TRUE, !.results = u.results,
              !.total_score = u.total_score, !.max_score = u.max_score,
              !.percentage = u.percentage, !.teacher_overrides_applied = TRUE]

\* no parent report was answered in the step just taken
NoReport == [op |-> "none", requester |-> None, code |-> 0, returned |-> FALSE,
             results |-> <<>>, total_score |-> 0, max_score |-> 0, percentage |-> 0,
             status |-> None, student_id |-> None]

NoResponse ==
    [kind |-> "none", code |-> 0, teacher_id |-> None, student_id |-> None,
     overrides |-> <<>>]

Silent == [q \in Procs |-> NoResponse]

\* a handler returns: its response, with the request it answers, is visible in
\* the state that follows, and its slot, with everything local to the request,
\* is free again
Finish(p, request, code) ==
    /\ pc' = [pc EXCEPT ![p] = "idle"]
    /\ req' = [req EXCEPT ![p] = NoRequest]
    /\ loc' = [loc EXCEPT ![p] = NoUpdate]
    /\ stage_log' = [stage_log EXCEPT ![p] = <<>>]
    /\ resp' = [Silent EXCEPT ![p] = [kind |-> request.kind, code |-> code,
                                      teacher_id |-> request.teacher_id,
                                      student_id |-> request.student_id,
                                      overrides |-> request.overrides]]

\* a handler moves on to its next await without answering
Goto(p, label, request, update) ==
    /\ pc' = [pc EXCEPT ![p] = label]
    /\ req' = [req EXCEPT ![p] = request]
    /\ loc' = [loc EXCEPT ![p] = update]
    /\ resp' = Silent

\* FirebaseService.get_submission returns the document: it returns None when
\* there is none and when the store raises (found says that it does not)
Got(found) == found /\ doc.exists

\* an update sent by the service goes through: it raises when the document
\* is gone and when the store raises (ok says that it does not)
Written(ok) == ok /\ doc.exists

\* ------------------------------------------------------- api/approvals.py
\* approve_submission_check without the comparison of teacher ids
approve_submission_check_any_teacher(p, teacher, overrides, found) ==
    /\ pc[p] = "idle"
    /\ LET request == [kind |-> "approve", teacher_id |-> teacher,
                       student_id |-> None, overrides |-> overrides]
       IN IF ~Got(found)
            THEN Finish(p, request, 404)
            ELSE IF doc.status # "pending_review"
                   THEN Finish(p, request, 400)
                   ELSE /\ Goto(p, IF overrides # <<>> THEN "apply_read"
                                   ELSE "approve_write", request, NoUpdate)
                        /\ UNCHANGED stage_log
    /\ report' = NoReport
    /\ UNCHANGED doc
    /\ UNCHANGED stage_vars

\* approve_submission_check that also lets an already approved submission through
approve_submission_check_reapprove(p, teacher, overrides, found) ==
    /\ pc[p] = "idle"
    /\ LET request == [kind |-> "approve", teacher_id |-> teacher,
                       student_id |-> None, overrides |-> overrides]
       IN IF ~Got(found)
            THEN Finish(p, request, 404)
            ELSE IF doc.status \notin {"pending_review", "approved"}
                   THEN Finish(p, request, 400)
                   ELSE IF doc.teacher_id # teacher
                          THEN Finish(p, request, 403)
                          ELSE /\ Goto(p, IF overrides # <<>> THEN "apply_read"
                                          ELSE "approve_write", request, NoUpdate)
                               /\ UNCHANGED stage_log
    /\ report' = NoReport
    /\ UNCHANGED doc
    /\ UNCHANGED stage_vars

\* approve_submission up to its first write, lines 59-87: the read, 404 when
\* it returns nothing, 400 unless pending_review, 403 unless the submission's
\* own teacher; then on to the overrides, if any, or to the approval write
approve_submission_check(p, teacher, overrides, found) ==
    /\ pc[p] = "idle"
    /\ LET request == [kind |-> "approve", teacher_id |-> teacher,
                       student_id |-> None, overrides |-> overrides]
       IN IF ~Got(found)
            THEN Finish(p, request, 404)
            ELSE IF doc.status # "pending_review"
                   THEN Finish(p, request, 400)
                   ELSE IF doc.teacher_id # teacher
                          THEN Finish(p, request, 403)
                          ELSE /\ Goto(p, IF overrides # <<>> THEN "apply_read"
                                          ELSE "approve_write", request, NoUpdate)
                               /\ UNCHANGED stage_log
    /\ report' = NoReport
    /\ UNCHANGED doc
    /\ UNCHANGED stage_vars

\* override_grade up to the call of _apply_teacher_overrides: the read, 404
\* when it returns nothing, and the permission check; the submission's status
\* is not looked at
override_grade_check(p, override, found) ==
    /\ pc[p] = "idle"
    /\ LET request == [kind |-> "override", teacher_id |-> OverrideTeacher,
                       student_id |-> None, overrides |-> <<override>>]
       IN IF ~Got(found)
            THEN Finish(p, request, 404)
            ELSE IF doc.teacher_id # OverrideTeacher
                   THEN Finish(p, request, 403)
                   ELSE Goto(p, "apply_read", request, NoUpdate) /\ UNCHANGED stage_log
    /\ report' = NoReport
    /\ UNCHANGED doc
    /\ UNCHANGED stage_vars

\* _apply_teacher_overrides, lines 297-317: its own read of the submission,
\* the early return when the read returns nothing or there are no results,
\* the rewrite and the totals
apply_teacher_overrides_read(p, found) ==
    /\ pc[p] = "apply_read"
    /\ IF ~Got(found) \/ ~doc.has_results
         THEN IF req[p].kind = "override"
                THEN Finish(p, req[p], 200)
                ELSE Goto(p, "approve_write", req[p], NoUpdate) /\ UNCHANGED stage_log
         ELSE /\ Goto(p, "apply_write", req[p], OverrideUpdate(doc.results, req[p].overrides))
              /\ UNCHANGED stage_log
    /\ report' = NoReport
    /\ UNCHANGED doc
    /\ UNCHANGED stage_vars

\* _apply_teacher_overrides, lines 320-331: the document update; an exception
\* is re-raised and both callers turn it into a 500.  The update of a
\* document that is gone raises without writing.
apply_teacher_overrides_write(p, outcome) ==
    /\ pc[p] = "apply_write"
    /\ LET o == IF doc.exists THEN outcome ELSE "fail"
       IN /\ doc' = IF o = "fail" THEN doc ELSE OverridesWritten(doc, loc[p])
          /\ IF o # "ok"
               THEN Finish(p, req[p], 500)
               ELSE IF req[p].kind = "override"
                      THEN Finish(p, req[p], 200)
                      ELSE /\ Goto(p, "approve_write", req[p], NoUpdate)
                           /\ UNCHANGED stage_log
    /\ report' = NoReport
    /\ UNCHANGED stage_vars

\* approve_submission, lines 89-100: FirebaseService.approve_submission writes
\* the stamp and the status, or returns False when the store raises (as it
\* does when the document is gone), which is answered 500
approve_submission_write(p, ok) ==
    /\ pc[p] = "approve_write"
    /\ IF Written(ok)
         THEN /\ doc' = Approved(doc, req[p].teacher_id)
              /\ Goto(p, "approve_reread", req[p], NoUpdate)
              /\ UNCHANGED stage_log
         ELSE /\ doc' = doc
              /\ Finish(p, req[p], 500)
    /\ report' = NoReport
    /\ UNCHANGED stage_vars

\* approve_submission, lines 102-121: the read of the updated submission and
\* the answer; when the read returns nothing, updated_submission.get raises
\* and the request is answered 500 although the approval was written
approve_submission_reread(p, found) ==
    /\ pc[p] = "approve_reread"
    /\ Finish(p, req[p], IF Got(found) THEN 200 ELSE 500)
    /\ report' = NoReport
    /\ UNCHANGED doc
    /\ UNCHANGED stage_vars

\* what a parent report carries of a submission, or of the fields read of it;
\* status and student_id are those of the submission the report is built from
ReportOf(op, student, d) ==
    [op |-> op, requester |-> student, code |-> 200, returned |-> TRUE,
     results |-> d.results, total_score |-> d.total_score,
     max_score |-> d.max_score, percentage |-> d.percentage,
     status |-> d.status, student_id |-> d.student_id]

\* a parent report request answered with an error code
Refused(op, student, code) ==
    [NoReport EXCEPT !.op = op, !.requester = student, !.code = code]

\* the fields of the submission get_single_report keeps from its read
ReportFields(d) ==
    [results |-> d.results, total_score |-> d.total_score,
     max_score |-> d.max_score, percentage |-> d.percentage,
     status |-> d.status, student_id |-> d.student_id]

\* get_single_report without the check of the status
get_single_report_read_any_status(p, student, found) ==
    /\ pc[p] = "idle"
    /\ LET request == [kind |-> "report", teacher_id |-> None,
                       student_id |-> student, overrides |-> <<>>]
       IN IF ~Got(found)
            THEN Finish(p, request, 404) /\ report' = Refused("single", student, 404)
            ELSE IF doc.student_id # student
                   THEN /\ Finish(p, request, 403)
                        /\ report' = Refused("single", student, 403)
                   ELSE /\ Goto(p, "report_exam", request, ReportFields(doc))
                        /\ UNCHANGED stage_log
                        /\ report' = NoReport
    /\ UNCHANGED doc
    /\ UNCHANGED stage_vars

\* get_single_report, lines 243-262: the read, 404 when it returns nothing,
\* 404 unless approved, 403 unless the student's own
get_single_report_read(p, student, found) ==
    /\ pc[p] = "idle"
    /\ LET request == [kind |-> "report", teacher_id |-> None,
                       student_id |-> student, overrides |-> <<>>]
       IN IF ~Got(found) \/ doc.status # "approved"
            THEN Finish(p, request, 404) /\ report' = Refused("single", student, 404)
            ELSE IF doc.student_id # student
                   THEN /\ Finish(p, request, 403)
                        /\ report' = Refused("single", student, 403)
                   ELSE /\ Goto(p, "report_exam", request, ReportFields(doc))
                        /\ UNCHANGED stage_log
                        /\ report' = NoReport
    /\ UNCHANGED doc
    /\ UNCHANGED stage_vars

\* get_single_report, lines 264-279: get_exam has returned (it returns None
\* rather than raise), and the report is built from the submission as read
get_single_report_answer(p) ==
    /\ pc[p] = "report_exam"
    /\ report' = ReportOf("single", req[p].student_id, loc[p])
    /\ Finish(p, req[p], 200)
    /\ UNCHANGED doc
    /\ UNCHANGED stage_vars

\* get_student_reports: the query where student_id == student and
\* status == 'approved', formatted by the endpoint; a query that raises
\* yields the empty list
get_student_reports(student, found) ==
    /\ report' = IF Got(found) /\ doc.student_id = student /\ doc.status = "approved"
                   THEN ReportOf("list", student, doc)
                   ELSE Refused("list", student, 200)
    /\ resp' = Silent
    /\ UNCHANGED <<doc, pc, req, loc, stage_log>>
    /\ UNCHANGED stage_vars

\* ----------------------------------------------------- api/submissions.py
\* PUT /submissions/{id}/status: any status string is written, from any
\* status.  The handler reads the submission (404 when there is none) and
\* then writes without looking at what it read, so on the document it acts at
\* its write; a write the store refuses, as for a document that is gone,
\* changes nothing.
update_submission_status(status) ==
    /\ doc.exists
    /\ doc' = StatusUpdated(doc, status)
    /\ resp' = Silent
    /\ report' = NoReport
    /\ UNCHANGED <<pc, req, loc, stage_log>>
    /\ UNCHANGED stage_vars

\* DELETE /submissions/{id}: the read (404 when there is none), then the
\* delete of the record.  The client call is awaited directly: with the
\* synchronous client the record is deleted and the handler answers 500, with
\* an awaitable one it answers 200; either way the record is gone.
delete_submission ==
    /\ doc.exists
    /\ doc' = NoDocument
    /\ resp' = Silent
    /\ report' = NoReport
    /\ UNCHANGED <<pc, req, loc, stage_log>>
    /\ UNCHANGED stage_vars

\* ------------------------------------------------ services/firebase_service.py
\* store_grading_results as an operation of the service.  Its one caller,
\* process_submission, does not reach it (see process_submission_step), so
\* the operation is offered to the environment: documents that hold results
\* come from it.
store_grading_results(results) ==
    /\ doc.exists
    /\ doc' = StoredGrading(doc, results)
    /\ resp' = Silent
    /\ report' = NoReport
    /\ UNCHANGED <<pc, req, loc, stage_log>>
    /\ UNCHANGED stage_vars

\* ------------------------------------------------------------------ main.py
\* the four stage calls of process_submission, in program order (lines 95-108)
PipelineCalls ==
    << [agent |-> "preprocessing", method |-> "process_images"],
       [agent |-> "segmentation",  method |-> "segment_answers"],
       [agent |-> "grading",       method |-> "grade_answers"],
       [agent |-> "factcheck",     method |-> "fact_check_answers"] >>

\* the stages in the order the spec fixes
StageOrder == <<"preprocessing", "segmentation", "grading", "factcheck">>

\* the methods the agent classes define; a call of any other name raises
\* AttributeError at the call site
AgentMethods(agent) ==
    CASE agent = "preprocessing" ->
           {"is_healthy", "process_images", "_clean_image", "_deskew_image",
            "_enhance_contrast", "_binarize_image", "_save_processed_image",
            "get_image_stats"}
      [] agent = "segmentation" ->
           {"_load_model", "process", "_extract_answer_regions", "_detect_grid_boxes",
            "_save_answer_region", "visualize_detections", "_execute_safely"}
      [] agent = "grading" ->
           {"_initialize_model", "process", "_grade_single_answer",
            "_create_grading_prompt", "_parse_grading_response",
            "_extract_grades_from_text", "_mock_grade_answer",
            "calculate_total_score", "_execute_safely"}
      [] agent = "factcheck" ->
           {"_validate_api_key", "is_healthy", "fact_check_answers",
            "_fact_check_single_answer", "_create_fact_check_prompt",
            "_parse_fact_check_response", "_mock_fact_check", "batch_fact_check"}

\* process_submission, lines 84-88: the read of the submission; when it
\* returns nothing the HTTPException(404) is raised inside the try block and
\* caught by its except branch
process_submission_get(p, found) ==
    /\ pc[p] = "idle"
    /\ Goto(p, IF Got(found) THEN "ps_processing" ELSE "ps_except",
            [kind |-> "process", teacher_id |-> None, student_id |-> None,
             overrides |-> <<>>], NoUpdate)
    /\ stage_log' = [stage_log EXCEPT ![p] = <<>>]
    /\ report' = NoReport
    /\ UNCHANGED doc
    /\ UNCHANGED stage_vars

\* process_submission, lines 90-126, one step at a time: the status write,
\* the stage calls in order, the two writes after the last stage, and the
\* except branch that marks the submission 'error' and answers 500.  ok says
\* whether the store accepts the write of the step: the service re-raises a
\* store error, which takes the try block to the except branch and the except
\* branch out of the handler (answered 500) with the status as it was.
process_submission_step(p, ok) ==
    /\ pc[p] \in {"ps_processing", "ps_stage", "ps_store", "ps_pending", "ps_except"}
    /\ CASE pc[p] = "ps_processing" ->
              /\ doc' = IF Written(ok) THEN StatusUpdated(doc, "processing") ELSE doc
              /\ Goto(p, IF Written(ok) THEN "ps_stage" ELSE "ps_except", req[p], loc[p])
              /\ UNCHANGED stage_log
         [] pc[p] = "ps_stage" ->
              LET i == Len(stage_log[p]) + 1
                  call == PipelineCalls[i]
              IN IF call.method \in AgentMethods(call.agent)
                   THEN /\ stage_log' = [stage_log EXCEPT ![p] = Append(@, call.agent)]
                        /\ Goto(p, IF i = Len(PipelineCalls) THEN "ps_store" ELSE "ps_stage",
                                req[p], loc[p])
                        /\ UNCHANGED doc
                   ELSE /\ Goto(p, "ps_except", req[p], loc[p])
                        /\ UNCHANGED <<doc, stage_log>>
         [] pc[p] = "ps_store" ->
              /\ doc' = IF Written(ok) THEN StoredGrading(doc, loc[p].results) ELSE doc
              /\ Goto(p, IF Written(ok) THEN "ps_pending" ELSE "ps_except", req[p], loc[p])
              /\ UNCHANGED stage_log
         [] pc[p] = "ps_pending" ->
              IF Written(ok)
                THEN /\ doc' = StatusUpdated(doc, "pending_review")
                     /\ Finish(p, req[p], 200)
                ELSE /\ doc' = doc
                     /\ Goto(p, "ps_except", req[p], loc[p])
                     /\ UNCHANGED stage_log
         [] pc[p] = "ps_except" ->
              /\ doc' = IF Written(ok) THEN StatusUpdated(doc, "error") ELSE doc
              /\ Finish(p, req[p], 500)
    /\ report' = NoReport
    /\ UNCHANGED stage_vars

\* ------------------------------------------------------------ GradingState
\* the state grade_submission builds: status "pending", nothing filled in;
\* preprocessed_image, cropped_answers and feedback, which no agent or node
\* gets to write, are left out
NoState ==
    [submission_id |-> 1, exam_id |-> 1, image_path |-> "sheet.png", answer_key |-> "key",
     answer_boxes |-> None, ocr_results |-> None, grades |-> None, status |-> "pending",
     error |-> None]

\* no stage agent was called yet; detect and score count the external
\* detection and scoring calls the last stage call made, ai_raised holds the
\* indices of the regions whose AI call raised, nodes the nodes a run of the
\* workflow graph started
NoCall ==
    [agent |-> None, outcome |-> None, detect |-> 0, score |-> 0, ai_raised |-> {},
     nodes |-> <<>>]

\* max_score of the answer key entry question_<q>; a missing entry reads 1
KeyMaxScore(q) == IF q = 3 THEN 2 ELSE 1

\* ------------------------------------------------- agents/segmentation_agent.py
\* a detected answer region; a region of the detector carries no
\* detection_method key, which "model" stands for
Region(q, y, method) == [question_number |-> q, y1 |-> y, detection_method |-> method]

\* what the detector returns: boxes with a confidence in tenths; loads tells
\* whether cv2.imread(image_path) returns the image when the box is handled
BoxInputs == [y1 : {10, 40}, conf : {3, 8}, loads : BOOLEAN]

\* what findContours returns: contours with their bounding y and their area
ContourInputs == [y1 : {10, 40}, area : {500, 2000}]

\* all lists of at most n elements of S
SeqsUpTo(S, n) == UNION { [1 .. k -> S] : k \in 0 .. n }

RECURSIVE ExtractFrom(_, _)
\* _extract_answer_regions: box i (0-based) is kept when conf > 0.5 and the
\* image can be read for it, and is numbered i + 1
ExtractFrom(boxes, i) ==
    IF i > Len(boxes) THEN <<>>
    ELSE (IF boxes[i].conf > 5 /\ boxes[i].loads
            THEN <<Region(i, boxes[i].y1, "model")>> ELSE <<>>)
         \o ExtractFrom(boxes, i + 1)

_extract_answer_regions(boxes) == ExtractFrom(boxes, 1)

RECURSIVE GridFrom(_, _)
\* the loop of _detect_grid_boxes: contour i (0-based) is kept when
\* 1000 < area < 50000 and is numbered i + 1
GridFrom(contours, i) ==
    IF i > Len(contours) THEN <<>>
    ELSE (IF 1000 < contours[i].area /\ contours[i].area < 50000
            THEN <<Region(i, contours[i].y1, "grid")>> ELSE <<>>)
         \o GridFrom(contours, i + 1)

RECURSIVE InsertByY1(_, _)
\* insert r behind every element whose y1 is not larger (list.sort is stable)
InsertByY1(sorted, r) ==
    IF sorted = <<>> THEN <<r>>
    ELSE IF Head(sorted).y1 <= r.y1
           THEN <<Head(sorted)>> \o InsertByY1(Tail(sorted), r)
           ELSE <<r>> \o sorted

RECURSIVE SortByY1(_)
\* answer_regions.sort(key=lambda x: x["coordinates"]["y1"])
SortByY1(regions) ==
    IF regions = <<>> THEN <<>>
    ELSE InsertByY1(SortByY1(SubSeq(regions, 1, Len(regions) - 1)), regions[Len(regions)])

\* _detect_grid_boxes: number the contours, then sort the regions by y1; when
\* the body raises, also while it saves the region of an accepted contour,
\* the except branch returns the empty list
_detect_grid_boxes(contours, grid_raises) ==
    IF grid_raises THEN <<>> ELSE SortByY1(GridFrom(contours, 1))

\* SegmentationAgent.process without the check of the status on entry
SegmentationAgent_process_unguarded(raises, boxes, contours, grid_raises) ==
    /\ calls < MaxCalls
    /\ calls' = calls + 1
    /\ entry' = state
    /\ last_call' = [NoCall EXCEPT !.agent = "segmentation", !.outcome = "returned",
                                   !.detect = 1]
    /\ IF raises
         THEN state' = [state EXCEPT !.error = "detection failed", !.status = "error"]
         ELSE LET found == _extract_answer_regions(boxes)
                  regions == IF found = <<>> THEN _detect_grid_boxes(contours, grid_raises)
                             ELSE found
              IN state' = [state EXCEPT !.answer_boxes = regions,
                                        !.status = "segmentation_complete"]
    /\ UNCHANGED approval_vars
    /\ UNCHANGED grade_vars
    /\ UNCHANGED item_vars

\* SegmentationAgent.process with an except branch that sets the status and
\* no message
SegmentationAgent_process_no_message(raises, boxes, contours, grid_raises) ==
    /\ calls < MaxCalls
    /\ calls' = calls + 1
    /\ entry' = state
    /\ IF state.status # "preprocessing_complete"
         THEN /\ state' = [state EXCEPT !.error = "Image preprocessing failed or was not run",
                                        !.status = "error"]
              /\ last_call' = [NoCall EXCEPT !.agent = "segmentation", !.outcome = "returned"]
         ELSE /\ last_call' = [NoCall EXCEPT !.agent = "segmentation", !.outcome = "returned",
                                             !.detect = 1]
              /\ IF raises
                   THEN state' = [state EXCEPT !.status = "error"]
                   ELSE LET found == _extract_answer_regions(boxes)
                            regions == IF found = <<>> THEN _detect_grid_boxes(contours, grid_raises)
                                       ELSE found
                        IN state' = [state EXCEPT !.answer_boxes = regions,
                                                  !.status = "segmentation_complete"]
    /\ UNCHANGED approval_vars
    /\ UNCHANGED grade_vars
    /\ UNCHANGED item_vars

\* SegmentationAgent.process: the precondition, the detection with its grid
\* fallback, and the except branch; raises stands for whatever raises inside
\* the try outside _detect_grid_boxes: the detector, or saving a region of the
\* detector
SegmentationAgent_process(raises, boxes, contours, grid_raises) ==
    /\ calls < MaxCalls
    /\ calls' = calls + 1
    /\ entry' = state
    /\ IF state.status # "preprocessing_complete"
         THEN /\ state' = [state EXCEPT !.error = "Image preprocessing failed or was not run",
                                        !.status = "error"]
              /\ last_call' = [NoCall EXCEPT !.agent = "segmentation", !.outcome = "returned"]
         ELSE /\ last_call' = [NoCall EXCEPT !.agent = "segmentation", !.outcome = "returned",
                                             !.detect = 1]
              /\ IF raises
                   THEN state' = [state EXCEPT !.error = "detection failed", !.status = "error"]
                   ELSE LET found == _extract_answer_regions(boxes)
                            regions == IF found = <<>> THEN _detect_grid_boxes(contours, grid_raises)
                                       ELSE found
                        IN state' = [state EXCEPT !.answer_boxes = regions,
                                                  !.status = "segmentation_complete"]
    /\ UNCHANGED approval_vars
    /\ UNCHANGED grade_vars
    /\ UNCHANGED item_vars

\* ------------------------------------- agents/grading_agent.py: one answer
\* Scores, partial credit and confidence are kept in tenths: 10 is 1.0.
\* max(lo, min(x, hi))
Clamp(x, lo, hi) ==
    LET m == IF x < hi THEN x ELSE hi
    IN IF lo > m THEN lo ELSE m

\* what one call of _grade_single_answer meets: whether a model is configured,
\* whether the AI call raises, the shape of the response text and the numbers
\* it carries, the scenario random.choice picks, and the key's max_score;
\* conf_dots tells whether the text after "confidence:" carries a further dot
\* behind the number ("0.8." at the end of a sentence)
ScoringInputs ==
    [mode : {"no_model", "ai_raised", "json", "json_no_score", "bad_json", "text"},
     scenario : 1 .. 4,
     score : {-10, 10, 15, 30},
     partial_credit : {-5, 5, 15},
     confidence : {-2, 8, 15, 950},
     conf_dots : BOOLEAN,
     max_score : {10, 20}]

NoScoring ==
    [mode |-> None, scenario |-> 1, score |-> 0, partial_credit |-> 0,
     confidence |-> 0, conf_dots |-> FALSE, max_score |-> 10]

NoGrade ==
    [student_answer |-> None, score |-> 0, partial_credit |-> 0, confidence |-> 0]

\* _mock_grade_answer: one of four scenarios, partial_credit = score / max_score
_mock_grade_answer(scenario, max_score) ==
    LET score == CASE scenario = 1 -> max_score
                   [] scenario = 2 -> (max_score * 8) \div 10
                   [] scenario = 3 -> (max_score * 5) \div 10
                   [] scenario = 4 -> 0
    IN [student_answer |-> "Mock answer",
        score |-> score,
        partial_credit |-> (score * 10) \div max_score,
        confidence |-> CASE scenario = 1 -> 9 [] scenario = 2 -> 8
                         [] scenario = 3 -> 7 [] scenario = 4 -> 6]

\* what the pattern score[:\s]*(\d+) captures: the leading digits of the
\* number, nothing when a sign comes first
TextScore(v) == IF v < 0 THEN 0 ELSE (v \div 10) * 10

\* float(conf_match.group(1)) on what the pattern confidence[:\s]*([\d.]+)
\* captures: nothing is captured when a sign comes first (default 0.8); the
\* digits and dots captured are the number, or the number with a further dot,
\* for which float raises ValueError
TextConfidence(v, dots) ==
    IF v < 0 THEN [raised |-> FALSE, value |-> 8]
    ELSE IF dots THEN [raised |-> TRUE, value |-> 0]
    ELSE [raised |-> FALSE, value |-> v]

\* _extract_grades_from_text: the score is clamped, the confidence is not; a
\* ValueError of float leaves the function
_extract_grades_from_text(r) ==
    LET conf == TextConfidence(r.confidence, r.conf_dots)
    IN [raised |-> conf.raised,
        grade |-> [student_answer |-> "Unable to transcribe",
                   score |-> Clamp(TextScore(r.score), 0, r.max_score),
                   partial_credit |-> 0,
                   confidence |-> conf.value]]

\* _parse_grading_response: JSON found and loaded (a missing "score" reads
\* as 0), JSON found but not loadable (mock with question 0), or no JSON
\* (text extraction, and the mock with question 0 when it raises)
_parse_grading_response(r) ==
    CASE r.mode = "json" ->
           [student_answer |-> "transcribed",
            score |-> Clamp(r.score, 0, r.max_score),
            partial_credit |-> Clamp(r.partial_credit, 0, 10),
            confidence |-> Clamp(r.confidence, 0, 10)]
      [] r.mode = "json_no_score" ->
           [student_answer |-> "transcribed",
            score |-> Clamp(0, 0, r.max_score),
            partial_credit |-> Clamp(r.partial_credit, 0, 10),
            confidence |-> Clamp(r.confidence, 0, 10)]
      [] r.mode = "bad_json" -> _mock_grade_answer(r.scenario, r.max_score)
      [] r.mode = "text" ->
           IF _extract_grades_from_text(r).raised
             THEN _mock_grade_answer(r.scenario, r.max_score)
             ELSE _extract_grades_from_text(r).grade

\* _grade_single_answer: mock without a model, mock when the AI call raises,
\* the parsed response otherwise
_grade_single_answer(r) ==
    IF r.mode \in {"no_model", "ai_raised"}
      THEN _mock_grade_answer(r.scenario, r.max_score)
      ELSE _parse_grading_response(r)

\* one call of _grade_single_answer
grade_single_answer ==
    /\ scoring # NoScoring
    /\ grade = NoGrade
    /\ grade' = _grade_single_answer(scoring)
    /\ UNCHANGED <<scoring, state, entry, last_call, calls>>
    /\ UNCHANGED item_vars
    /\ UNCHANGED approval_vars

\* ------------------------------------------------------ agents/grading_agent.py
\* The grades of a GradingState carry score and max_score in tenths of a mark
\* (10 is 1.0): a mock grade may be 0.8 or 0.5 of the maximum.
\* what grading one region comes to: _grade_single_answer returns the parsed
\* score (in marks), or it returns the mock grade of the scenario
\* random.choice picks, either without a raised call (no model is configured,
\* or the response does not parse) or because its AI call raised, or the loop
\* body itself raises
GradeInputs ==
    [outcome : {"scored"}, score : {0, 1}, scenario : {1}]
    \cup [outcome : {"mocked"}, score : {0}, scenario : 1 .. 4]
    \cup [outcome : {"ai_raised"}, score : {0}, scenario : 1 .. 4]
    \cup [outcome : {"body_raised"}, score : {0}, scenario : {1}]

\* the score of the mock grade, in tenths of a mark
MockScore(scenario, max_score) ==
    _mock_grade_answer(scenario, max_score * 10).score

\* the entry GradingAgent.process appends for one region
GradeEntry(region, g) ==
    CASE g.outcome = "body_raised" -> ErrResult(region.question_number)
      [] g.outcome \in {"mocked", "ai_raised"} ->
           OkResult(region.question_number,
                    MockScore(g.scenario, KeyMaxScore(region.question_number)),
                    KeyMaxScore(region.question_number) * 10)
      [] g.outcome = "scored" ->
           OkResult(region.question_number, g.score * 10,
                    KeyMaxScore(region.question_number) * 10)

\* number of regions whose scoring call was made and returned
RECURSIVE Scored(_, _, _)
Scored(boxes, g, i) ==
    IF i > Len(boxes) THEN 0
    ELSE (IF g[i].outcome = "body_raised" THEN 0 ELSE 1) + Scored(boxes, g, i + 1)

\* the indices of the regions whose AI call raised
AiRaised(boxes, g) == { i \in 1 .. Len(boxes) : g[i].outcome = "ai_raised" }

\* GradingAgent.process without the check of the status on entry
GradingAgent_process_unguarded(g) ==
    /\ calls < MaxCalls
    /\ calls' = calls + 1
    /\ entry' = state
    /\ IF state.answer_boxes = None
         THEN /\ state' = state
              /\ last_call' = [NoCall EXCEPT !.agent = "grading", !.outcome = "raised"]
         ELSE LET boxes == state.answer_boxes
              IN /\ state' = [state EXCEPT
                                !.grades = [i \in 1 .. Len(boxes) |->
                                              GradeEntry(boxes[i], g[i])],
                                !.status = "grading_complete"]
                 /\ last_call' = [NoCall EXCEPT !.agent = "grading",
                                                !.outcome = "returned",
                                                !.score = Scored(boxes, g, 1),
                                                !.ai_raised = AiRaised(boxes, g)]
    /\ UNCHANGED approval_vars
    /\ UNCHANGED grade_vars
    /\ UNCHANGED item_vars

\* GradingAgent.process that appends no entry for a region whose grading raised
GradingAgent_process_skips_failed(g) ==
    /\ calls < MaxCalls
    /\ calls' = calls + 1
    /\ entry' = state
    /\ IF state.status # "segmentation_complete"
         THEN /\ state' = [state EXCEPT !.error = "Segmentation failed or was not run",
                                        !.status = "error"]
              /\ last_call' = [NoCall EXCEPT !.agent = "grading", !.outcome = "returned"]
         ELSE IF state.answer_boxes = None
                THEN /\ state' = state
                     /\ last_call' = [NoCall EXCEPT !.agent = "grading", !.outcome = "raised"]
                ELSE LET boxes == state.answer_boxes
                     IN /\ state' = [state EXCEPT
                                       !.grades = SelectSeq([i \in 1 .. Len(boxes) |->
                                                               GradeEntry(boxes[i], g[i])],
                                                            LAMBDA e : e.status = "success"),
                                       !.status = "grading_complete"]
                        /\ last_call' = [NoCall EXCEPT !.agent = "grading",
                                                       !.outcome = "returned",
                                                       !.score = Scored(boxes, g, 1),
                                                       !.ai_raised = AiRaised(boxes, g)]
    /\ UNCHANGED approval_vars
    /\ UNCHANGED grade_vars
    /\ UNCHANGED item_vars

\* GradingAgent.process: the precondition, then one entry per region; with
\* answer_boxes None the for loop raises TypeError out of process
GradingAgent_process(g) ==
    /\ calls < MaxCalls
    /\ calls' = calls + 1
    /\ entry' = state
    /\ IF state.status # "segmentation_complete"
         THEN /\ state' = [state EXCEPT !.error = "Segmentation failed or was not run",
                                        !.status = "error"]
              /\ last_call' = [NoCall EXCEPT !.agent = "grading", !.outcome = "returned"]
         ELSE IF state.answer_boxes = None
                THEN /\ state' = state
                     /\ last_call' = [NoCall EXCEPT !.agent = "grading", !.outcome = "raised"]
                ELSE LET boxes == state.answer_boxes
                     IN /\ state' = [state EXCEPT
                                       !.grades = [i \in 1 .. Len(boxes) |->
                                                     GradeEntry(boxes[i], g[i])],
                                       !.status = "grading_complete"]
                        /\ last_call' = [NoCall EXCEPT !.agent = "grading",
                                                       !.outcome = "returned",
                                                       !.score = Scored(boxes, g, 1),
                                                       !.ai_raised = AiRaised(boxes, g)]
    /\ UNCHANGED approval_vars
    /\ UNCHANGED grade_vars
    /\ UNCHANGED item_vars

\* ------------------------------------------------ agents/factcheck_agent.py
\* no per-item operation under way
NoJob ==
    [op |-> None, input |-> <<>>, api_key |-> FALSE, batch_size |-> 1, i |-> 1,
     pending |-> {}, reading |-> {}, gathered |-> <<>>, values |-> <<>>, acc |-> <<>>,
     order |-> <<>>, called |-> {}, failed |-> {}, raised |-> {}, sleeping |-> FALSE,
     returned |-> FALSE]

\* one operation of an agent is followed at a time: a call is taken up, and
\* its inputs are drawn from S, only while no operation is under way
WhenIdle(S) == IF job = NoJob THEN S ELSE {}

\* the lists of grading results GradingAgent.process emits: entry i is for
\* question i and is either a graded answer or an entry of a failed grading
GradeLists ==
    UNION { { [i \in 1 .. n |-> IF i \in S THEN OkResult(i, 1, 1) ELSE ErrResult(i)]
              : S \in SUBSET (1 .. n) }
            : n \in 0 .. MaxResults }

\* random.choice of _mock_fact_check
MockPicks == {1, 2}

\* the text of a 200 answer
Contents == {"The answer is accurate.", "Well done overall."}

\* how one resumption of _fact_check_single_answer ends; content is the text
\* read, pick the choice random.choice makes when the mock is returned
Outcome(call, content, pick) == [call |-> call, content |-> content, pick |-> pick]

\* an exception leaves _fact_check_single_answer; its own except branch
\* catches every Exception of the try, so one gets out only of that branch
Escaped == Outcome("escaped", None, 1)

\* what _fact_check_single_answer can meet where it stands: "mock" when it
\* makes no call, "post" while session.post is awaited (it answers 200,
\* answers another status, or raises, timeout included), "read" while
\* response.json() is awaited (the text arrives, or reading raises)
FactOutcomes(phase) ==
    CASE phase = "mock" ->
           { Outcome("mock", None, k) : k \in MockPicks } \cup {Escaped}
      [] phase = "post" ->
           {Outcome("status_200", None, 1)}
           \cup { Outcome(c, None, k) : c \in {"non_200", "raised"}, k \in MockPicks }
           \cup {Escaped}
      [] phase = "read" ->
           { Outcome("content", c, 1) : c \in Contents }
           \cup { Outcome("raised", None, k) : k \in MockPicks }
           \cup {Escaped}
      [] phase = "skip" -> {Outcome("skip", None, 1)}

\* batch sizes handed to batch_fact_check
BatchSizes == {1, 2}

\* only entries of graded answers carry student_answer and correct_answer
HasAnswer(r) == r.status = "success"

\* the annotation of an entry whose grading failed
Skipped == [status |-> "skipped", reason |-> "grading failed"]

\* _mock_fact_check: one of the two canned annotations, both with status success
_mock_fact_check(pick) ==
    [status |-> "success",
     accuracy_assessment |-> IF pick = 1 THEN "good understanding"
                             ELSE "partially correct",
     confidence |-> IF pick = 1 THEN 8 ELSE 7]

\* _parse_fact_check_response for a one-line text: a line with 'accurate' is
\* the assessment, any other line longer than 10 characters is an insight
_parse_fact_check_response(content) ==
    [status |-> "success",
     accuracy_assessment |-> IF content = "The answer is accurate." THEN content
                             ELSE "Unable to assess",
     insights |-> IF content = "The answer is accurate." THEN <<>> ELSE <<content>>,
     raw_response |-> content,
     confidence |-> 8]

\* whether _fact_check_single_answer reaches session.post: it needs an API key
\* and the two answers of the entry (a missing key raises KeyError before)
ExternalCall(r, api_key) == api_key /\ HasAnswer(r)

\* where the call of _fact_check_single_answer for entry j stands
Phase(j) ==
    IF j \in job.reading THEN "read"
    ELSE IF ExternalCall(job.input[j], job.api_key) THEN "post"
    ELSE "mock"

\* an exception as a value
Exception(message) == [exception |-> message]

\* what _fact_check_single_answer ends with: the parsed text of a 200
\* response, the mock without an API key, for any other status and for every
\* exception of the call, or an exception that leaves it
_fact_check_single_answer(o) ==
    CASE o.call = "content" -> _parse_fact_check_response(o.content)
      [] o.call = "escaped" -> Exception("fact check failed")
      [] OTHER -> _mock_fact_check(o.pick)

\* {**grade_result, **annotation}: the annotation merged into the entry
WithFactCheck_merged(r, annotation) ==
    [f \in DOMAIN r \cup DOMAIN annotation |->
       IF f \in DOMAIN annotation THEN annotation[f] ELSE r[f]]

\* {**grade_result, "fact_check": annotation}
WithFactCheck(r, annotation) ==
    [f \in DOMAIN r \cup {"fact_check"} |->
       IF f = "fact_check" THEN annotation ELSE r[f]]

\* isinstance(batch_results[j], Exception), and the except clause of
\* fact_check_answers
IsException(value) == "exception" \in DOMAIN value

\* what fact_check_answers appends for an entry whose grading failed
SkippedEntry(r) == WithFactCheck(r, Skipped)

\* what fact_check_answers appends for a graded entry: the annotation, or the
\* error annotation of its except branch
Checked(r, value) ==
    IF IsException(value)
      THEN WithFactCheck(r, [status |-> "error", error |-> value.exception,
                             insights |-> "Unable to verify facts"])
      ELSE WithFactCheck(r, value)

\* the bookkeeping of one resumption of the call for entry j that ends with o
Resumed(j, o) ==
    [job EXCEPT
       !.reading = IF o.call = "status_200" THEN @ \cup {j} ELSE @ \ {j},
       !.called = IF Phase(j) = "post" THEN @ \cup {j} ELSE @,
       !.failed = IF o.call \in {"non_200", "raised"} THEN @ \cup {j} ELSE @,
       !.raised = IF o.call = "escaped" THEN @ \cup {j} ELSE @]

\* fact_check_answers is called
fact_check_answers(results, api_key) ==
    /\ job = NoJob
    /\ job' = [NoJob EXCEPT !.op = "fact_check_answers", !.input = results,
                            !.api_key = api_key, !.returned = (results = <<>>)]
    /\ out' = <<>>
    /\ UNCHANGED approval_vars
    /\ UNCHANGED <<state, entry, last_call, calls>>
    /\ UNCHANGED grade_vars

\* what the loop of fact_check_answers can meet at its entry
EntryOutcomes ==
    IF job.op = "fact_check_answers" /\ ~job.returned
      THEN IF job.input[job.i].status # "success" THEN FactOutcomes("skip")
           ELSE FactOutcomes(Phase(job.i))
      ELSE {}

\* fact_check_answers at entry i of its loop: an entry whose grading failed is
\* skipped; for a graded entry _fact_check_single_answer is awaited, which
\* suspends at session.post and at response.json(); the list is returned
\* behind the last entry
fact_check_answers_entry(o) ==
    /\ job.op = "fact_check_answers"
    /\ ~job.returned
    /\ LET i == job.i
           r == job.input[i]
       IN IF o.call = "status_200"
            THEN /\ job' = Resumed(i, o)
                 /\ UNCHANGED out
            ELSE LET e == IF r.status # "success" THEN SkippedEntry(r)
                          ELSE Checked(r, _fact_check_single_answer(o))
                     acc == Append(job.acc, e)
                     after == IF r.status # "success" THEN job ELSE Resumed(i, o)
                 IN /\ job' = [after EXCEPT !.acc = acc, !.i = i + 1,
                                            !.returned = (i = Len(job.input))]
                    /\ out' = IF i = Len(job.input) THEN acc ELSE out
    /\ UNCHANGED approval_vars
    /\ UNCHANGED <<state, entry, last_call, calls>>
    /\ UNCHANGED grade_vars

\* the indices of the batch that starts at i
BatchAt(results, i, batch_size) ==
    { j \in DOMAIN results : i <= j /\ j < i + batch_size }

\* batch_fact_check up to its first gather: the tasks of the first batch are
\* created; an empty list is returned at once
batch_fact_check(results, batch_size, api_key) ==
    /\ job = NoJob
    /\ job' = [NoJob EXCEPT !.op = "batch_fact_check", !.input = results,
                            !.api_key = api_key, !.batch_size = batch_size,
                            !.pending = BatchAt(results, 1, batch_size),
                            !.returned = (results = <<>>)]
    /\ out' = <<>>
    /\ UNCHANGED approval_vars
    /\ UNCHANGED <<state, entry, last_call, calls>>
    /\ UNCHANGED grade_vars

\* one task of the running batch is resumed: _fact_check_single_answer for
\* entry j gets its answer to session.post and goes on to read it, or ends;
\* the tasks of a batch are resumed in any order
batch_fact_check_task(j, o) ==
    /\ job.op = "batch_fact_check"
    /\ j \in job.pending
    /\ IF o.call = "status_200"
         THEN job' = Resumed(j, o)
         ELSE LET value == _fact_check_single_answer(o)
              IN job' = [Resumed(j, o) EXCEPT
                           !.pending = @ \ {j},
                           !.gathered = [k \in DOMAIN @ \cup {j} |->
                                           IF k = j THEN value ELSE @[k]],
                           !.values = [k \in DOMAIN @ \cup {j} |->
                                         IF k = j THEN value ELSE @[k]],
                           !.order = Append(@, j)]
    /\ UNCHANGED out
    /\ UNCHANGED approval_vars
    /\ UNCHANGED <<state, entry, last_call, calls>>
    /\ UNCHANGED grade_vars

\* what batch_fact_check appends for entry j of the gathered batch
Combined(r, value) ==
    IF IsException(value)
      THEN WithFactCheck(r, [status |-> "error", error |-> value.exception])
      ELSE WithFactCheck(r, value)

\* the entries of the batch i .. hi in input order
RECURSIVE CombineBatch(_, _, _, _)
CombineBatch(results, gathered, i, hi) ==
    IF i > hi THEN <<>>
    ELSE <<Combined(results[i], gathered[i])>>
         \o CombineBatch(results, gathered, i + 1, hi)

\* the entries of a batch in the order its tasks ended
RECURSIVE CombineOrder(_, _, _)
CombineOrder(results, gathered, order) ==
    IF order = <<>> THEN <<>>
    ELSE <<Combined(results[Head(order)], gathered[Head(order)])>>
         \o CombineOrder(results, gathered, Tail(order))

\* the last index of the batch that starts at job.i
BatchEnd ==
    IF job.i + job.batch_size - 1 < Len(job.input)
      THEN job.i + job.batch_size - 1 ELSE Len(job.input)

\* batch_fact_check that appends the results of a batch as its tasks ended
batch_fact_check_combine_as_completed ==
    /\ job.op = "batch_fact_check"
    /\ ~job.returned
    /\ ~job.sleeping
    /\ job.pending = {}
    /\ LET acc == job.acc \o CombineOrder(job.input, job.gathered,
                                          SubSeq(job.order, job.i, BatchEnd))
       IN IF job.i + job.batch_size <= Len(job.input)
            THEN /\ job' = [job EXCEPT !.acc = acc, !.gathered = <<>>, !.sleeping = TRUE]
                 /\ UNCHANGED out
            ELSE /\ job' = [job EXCEPT !.acc = acc, !.gathered = <<>>,
                                       !.returned = TRUE]
                 /\ out' = acc
    /\ UNCHANGED approval_vars
    /\ UNCHANGED <<state, entry, last_call, calls>>
    /\ UNCHANGED grade_vars

\* batch_fact_check after a gather: the results of the batch are appended in
\* the order of the batch, then the pause before the next batch begins or the
\* list is returned
batch_fact_check_combine ==
    /\ job.op = "batch_fact_check"
    /\ ~job.returned
    /\ ~job.sleeping
    /\ job.pending = {}
    /\ LET acc == job.acc \o CombineBatch(job.input, job.gathered, job.i, BatchEnd)
       IN IF job.i + job.batch_size <= Len(job.input)
            THEN /\ job' = [job EXCEPT !.acc = acc, !.gathered = <<>>, !.sleeping = TRUE]
                 /\ UNCHANGED out
            ELSE /\ job' = [job EXCEPT !.acc = acc, !.gathered = <<>>,
                                       !.returned = TRUE]
                 /\ out' = acc
    /\ UNCHANGED approval_vars
    /\ UNCHANGED <<state, entry, last_call, calls>>
    /\ UNCHANGED grade_vars

\* batch_fact_check after asyncio.sleep(1): the tasks of the next batch are
\* created
batch_fact_check_next_batch ==
    /\ job.op = "batch_fact_check"
    /\ job.sleeping
    /\ job' = [job EXCEPT !.i = @ + job.batch_size, !.sleeping = FALSE,
                          !.pending = BatchAt(job.input, job.i + job.batch_size,
                                              job.batch_size)]
    /\ UNCHANGED out
    /\ UNCHANGED approval_vars
    /\ UNCHANGED <<state, entry, last_call, calls>>
    /\ UNCHANGED grade_vars

\* ------------------------------------------------------------ graph/workflow.py
\* The nodes of the graph create_workflow builds.  A node is a function on the
\* state: it raises before it writes, or returns the state it has written.
NodeRaises(s) == [raised |-> TRUE, state |-> s]

NodeWrites(s) == [raised |-> FALSE, state |-> s]

\* preprocess_node: PreprocessingAgent has no method process, the call raises
\* AttributeError before anything is written
preprocess_node(s) == NodeRaises(s)

\* segment_node: SegmentationAgent.process is a coroutine function called
\* without await; its body does not run, and indexing the coroutine raises
\* TypeError before anything is written
segment_node(s) == NodeRaises(s)

\* ocr_node: the OCR agent is not part of the sources, so its call either
\* raises or returns; when it returns the node writes ocr_results and the
\* status
ocr_node(s, returns) ==
    IF returns
      THEN NodeWrites([s EXCEPT !.ocr_results = "ocr_text", !.status = "ocr_completed"])
      ELSE NodeRaises(s)

\* grade_node: the loop over ocr_results raises on None, and otherwise
\* GradingAgent.process is called without await and indexing the coroutine
\* raises TypeError; nothing is written
grade_node(s) == NodeRaises(s)

\* feedback_node: writes the status whatever the state is
feedback_node(s) == NodeWrites([s EXCEPT !.status = "feedback_generated"])

\* storage_node: writes the status whatever the state is
storage_node(s) == NodeWrites([s EXCEPT !.status = "completed"])

\* error_handler_node: sets the status and nothing else
error_handler_node(s) == NodeWrites([s EXCEPT !.status = "failed"])

\* add_node: the function registered under each name
WorkflowNode(name, s, ocr_returns) ==
    CASE name = "preprocess" -> preprocess_node(s)
      [] name = "segment" -> segment_node(s)
      [] name = "ocr" -> ocr_node(s, ocr_returns)
      [] name = "grade" -> grade_node(s)
      [] name = "feedback" -> feedback_node(s)
      [] name = "storage" -> storage_node(s)
      [] name = "error_handler" -> error_handler_node(s)

\* set_entry_point and add_edge: the node run first, and the node run after
\* each node; no edge leads to error_handler
WorkflowEntry == "preprocess"

WorkflowEdge(name) ==
    CASE name = "preprocess" -> "segment"
      [] name = "segment" -> "ocr"
      [] name = "ocr" -> "grade"
      [] name = "grade" -> "feedback"
      [] name = "feedback" -> "storage"
      [] name = "storage" -> "END"

\* a run of the graph from node name on: the nodes run along the edges until
\* one raises, which ends the run, or END is reached; nodes lists the nodes
\* started
RECURSIVE WorkflowRun(_, _, _, _)
WorkflowRun(name, s, ocr_returns, nodes) ==
    IF name = "END" THEN [raised |-> FALSE, state |-> s, nodes |-> nodes]
    ELSE LET r == WorkflowNode(name, s, ocr_returns)
         IN IF r.raised
              THEN [raised |-> TRUE, state |-> r.state, nodes |-> Append(nodes, name)]
              ELSE WorkflowRun(WorkflowEdge(name), r.state, ocr_returns, Append(nodes, name))

\* grade_submission, from create_workflow on: workflow.ainvoke(initial_state)
\* on the state it has built; an exception of a node leaves ainvoke
workflow_ainvoke(ocr_returns) ==
    /\ calls < MaxCalls
    /\ calls' = calls + 1
    /\ entry' = state
    /\ LET run == WorkflowRun(WorkflowEntry, state, ocr_returns, <<>>)
       IN /\ state' = run.state
          /\ last_call' = [NoCall EXCEPT !.agent = "workflow",
                                         !.outcome = IF run.raised THEN "raised"
                                                     ELSE "returned",
                                         !.nodes = run.nodes]
    /\ UNCHANGED approval_vars
    /\ UNCHANGED grade_vars
    /\ UNCHANGED item_vars

\* --------------------------------------------- agents/preprocessing_agent.py
\* what process_images meets at one path: an image cv2.imread loads and the
\* steps enhance (with its shape), a file cv2.imread cannot load (it returns
\* None), or an image on which a step raises
ImageInputs ==
    [kind : {"ok"}, shape : {"600x800", "1200x1600"}]
    \cup [kind : {"unloadable", "step_raises"}, shape : {None}]

\* the lists of paths handed to process_images: path i holds image i
ImageLists == UNION { [1 .. n -> ImageInputs] : n \in 0 .. MaxResults }

\* the records process_images appends for the paths from i on: none for a
\* file that cannot be loaded (continue), an error record when a step raises,
\* a success record otherwise
RECURSIVE ProcessedFrom(_, _)
ProcessedFrom(images, i) ==
    IF i > Len(images) THEN <<>>
    ELSE (CASE images[i].kind = "unloadable" -> <<>>
            [] images[i].kind = "step_raises" ->
                 <<[original_path |-> i, processed_path |-> None,
                    error |-> "step failed", status |-> "error"]>>
            [] images[i].kind = "ok" ->
                 <<[original_path |-> i, processed_path |-> i,
                    dimensions |-> images[i].shape, status |-> "success"]>>)
         \o ProcessedFrom(images, i + 1)

\* process_images: the paths one after the other
process_images(images) ==
    /\ job = NoJob
    /\ job' = [NoJob EXCEPT !.op = "process_images", !.input = images,
                            !.returned = TRUE]
    /\ out' = ProcessedFrom(images, 1)
    /\ UNCHANGED approval_vars
    /\ UNCHANGED <<state, entry, last_call, calls>>
    /\ UNCHANGED grade_vars

\* ------------------------------------------------------------- specification
\* one submission as create_submission leaves it; no request in flight
Init ==
    /\ \E t \in TeacherIds : doc = NewSubmission(t, "student_001")
    /\ pc = [p \in Procs |-> "idle"]
    /\ req = [p \in Procs |-> NoRequest]
    /\ loc = [p \in Procs |-> NoUpdate]
    /\ resp = Silent
    /\ stage_log = [p \in Procs |-> <<>>]
    /\ report = NoReport
    /\ state = NoState
    /\ entry = NoState
    /\ last_call = NoCall
    /\ calls = 0
    /\ scoring = NoScoring
    /\ grade = NoGrade
    /\ job = NoJob
    /\ out = <<>>

\* one step of the request served in slot p
RequestStep(p) ==
    \/ \E t \in TeacherIds, o \in OverrideLists, found \in BOOLEAN :
         approve_submission_check(p, t, o, found)
    \/ \E o \in OverrideInputs, found \in BOOLEAN : override_grade_check(p, o, found)
    \/ \E found \in BOOLEAN : apply_teacher_overrides_read(p, found)
    \/ \E outcome \in UpdateOutcomes : apply_teacher_overrides_write(p, outcome)
    \/ \E ok \in BOOLEAN : approve_submission_write(p, ok)
    \/ \E found \in BOOLEAN : approve_submission_reread(p, found)
    \/ \E found \in BOOLEAN : process_submission_get(p, found)
    \/ \E ok \in BOOLEAN : process_submission_step(p, ok)

\* the operations that act on the document in a single write
ServiceStep ==
    \/ \E s \in StatusInputs : update_submission_status(s)
    \/ \E r \in ResultInputs : store_grading_results(r)
    \/ delete_submission

\* the parent report endpoints, served in slot p
ReportStep(p) ==
    \/ \E s \in StudentIds, found \in BOOLEAN : get_single_report_read(p, s, found)
    \/ get_single_report_answer(p)
    \/ \E s \in StudentIds, found \in BOOLEAN : get_student_reports(s, found)

\* the teacher-side and pipeline requests, two at a time
Next == (\E p \in Procs : RequestStep(p)) \/ ServiceStep

Spec == Init /\ [][Next]_vars

\* a teacher-side or pipeline request in slot 1 and a parent's report request
\* in slot 2, interleaved at every await
NextReports == RequestStep(1) \/ ServiceStep \/ ReportStep(2)

SpecReports == Init /\ [][NextReports]_vars

\* pipeline runs, two at a time, among arbitrary status and result writes; the
\* event loop resumes every run whose awaited call has returned
NextRuns ==
    \/ \E p \in Procs :
         \/ \E found \in BOOLEAN : process_submission_get(p, found)
         \/ \E ok \in BOOLEAN : process_submission_step(p, ok)
    \/ ServiceStep

SpecRuns ==
    /\ Init /\ [][NextRuns]_vars
    /\ \A p \in Procs : WF_vars(\E ok \in BOOLEAN : process_submission_step(p, ok))

\* one answer, its key and the AI's response, before it is graded
InitScoring ==
    /\ scoring \in ScoringInputs
    /\ grade = NoGrade
    /\ job = NoJob
    /\ out = <<>>
    /\ state = NoState
    /\ entry = NoState
    /\ last_call = NoCall
    /\ calls = 0
    /\ doc = NewSubmission("teacher_id", "student_001")
    /\ pc = [p \in Procs |-> "idle"]
    /\ req = [p \in Procs |-> NoRequest]
    /\ loc = [p \in Procs |-> NoUpdate]
    /\ resp = Silent
    /\ stage_log = [p \in Procs |-> <<>>]
    /\ report = NoReport

NextScoring == grade_single_answer

SpecScoring == InitScoring /\ [][NextScoring]_vars

\* the fact-check agent on its own: one call of either entry point
NextFactCheck ==
    \/ \E results \in WhenIdle(GradeLists), api_key \in BOOLEAN :
         fact_check_answers(results, api_key)
    \/ \E o \in EntryOutcomes : fact_check_answers_entry(o)
    \/ \E results \in WhenIdle(GradeLists), batch_size \in BatchSizes, api_key \in BOOLEAN :
         batch_fact_check(results, batch_size, api_key)
    \/ \E j \in job.pending : \E o \in FactOutcomes(Phase(j)) : batch_fact_check_task(j, o)
    \/ batch_fact_check_combine
    \/ batch_fact_check_next_batch

SpecFactCheck == Init /\ [][NextFactCheck]_vars

\* the preprocessing agent on its own: one call of process_images
NextImages == \E images \in WhenIdle(ImageLists) : process_images(images)

SpecImages == Init /\ [][NextImages]_vars

\* the statuses a GradingState is handed over with: the initial one, the
\* completion markers of the agents and of the workflow nodes, and "error"
StageStatuses ==
    {"pending", "preprocessing_complete", "preprocessed", "segmentation_complete",
     "segmented", "grading_complete", "error"}

\* a GradingState as a caller may pass it to a stage agent or to a node
InitStages ==
    /\ \E st \in StageStatuses,
          boxes \in {None, <<>>, <<Region(1, 10, "model"), Region(2, 40, "model")>>},
          grades \in {None, <<OkResult(1, 10, 10)>>} :
         state = [NoState EXCEPT !.status = st,
                                 !.error = IF st = "error" THEN "earlier failure" ELSE None,
                                 !.answer_boxes = boxes, !.grades = grades]
    /\ entry = NoState
    /\ last_call = NoCall
    /\ calls = 0
    /\ scoring = NoScoring
    /\ grade = NoGrade
    /\ job = NoJob
    /\ out = <<>>
    /\ doc = NewSubmission("teacher_id", "student_001")
    /\ pc = [p \in Procs |-> "idle"]
    /\ req = [p \in Procs |-> NoRequest]
    /\ loc = [p \in Procs |-> NoUpdate]
    /\ resp = Silent
    /\ stage_log = [p \in Procs |-> <<>>]
    /\ report = NoReport

\* the contours the grid fallback would find; they are looked at only when the
\* detector's boxes yield no region
ContoursFor(boxes) ==
    IF state.status = "preprocessing_complete" /\ _extract_answer_regions(boxes) = <<>>
      THEN SeqsUpTo(ContourInputs, MaxBoxes)
      ELSE {<<>>}

\* whether the grid fallback raises; it runs only when the detector's boxes
\* yield no region
GridRaisesFor(boxes) ==
    IF state.status = "preprocessing_complete" /\ _extract_answer_regions(boxes) = <<>>
      THEN BOOLEAN
      ELSE {FALSE}

\* the boxes the detector returns; when it raises, or is not called because
\* the state is not a preprocessed one, there are none
BoxesFor(raises) ==
    IF raises \/ state.status # "preprocessing_complete" THEN {<<>>}
    ELSE SeqsUpTo(BoxInputs, MaxBoxes)

\* one grading outcome per region of the state; they are looked at only when
\* the loop over the regions runs
GradingsFor(s) ==
    IF s.status = "segmentation_complete" /\ s.answer_boxes # None
      THEN [1 .. Len(s.answer_boxes) -> GradeInputs]
      ELSE {<<>>}

\* a caller awaiting SegmentationAgent.process or GradingAgent.process on a
\* GradingState; the nodes of graph/workflow.py do not do this, they are part
\* of workflow_ainvoke
NextStages ==
    \/ \E raises \in BOOLEAN :
         \E boxes \in BoxesFor(raises) :
            \E contours \in (IF raises THEN {<<>>} ELSE ContoursFor(boxes)),
               grid_raises \in (IF raises THEN {FALSE} ELSE GridRaisesFor(boxes)) :
               SegmentationAgent_process(raises, boxes, contours, grid_raises)
    \/ \E g \in GradingsFor(state) : GradingAgent_process(g)

SpecStages == InitStages /\ [][NextStages]_vars

\* pipeline runs by either entry: process_submission, two requests at a time,
\* and the workflow graph invoked on the state grade_submission builds
NextPipeline ==
    \/ NextRuns
    \/ \E ocr_returns \in BOOLEAN : workflow_ainvoke(ocr_returns)

SpecPipeline == Init /\ [][NextPipeline]_vars

\* the lists of grading results handed to the fact-check agent beside the
\* stage agents
AgentResults == { <<>>, <<OkResult(1, 1, 1), ErrResult(2)>> }

\* the longest list the detector, or findContours, returns beside the
\* fact-check agent
MaxAgentBoxes == 1

\* the lists of S that are no longer than MaxAgentBoxes
Short(S) == { b \in S : Len(b) <= MaxAgentBoxes }

\* the agents called by a caller of their own: the stage agents on a
\* GradingState and the two entry points of the fact-check agent on a list
NextAgents ==
    \/ \E raises \in BOOLEAN :
         \E boxes \in Short(BoxesFor(raises)) :
            \E contours \in (IF raises THEN {<<>>} ELSE Short(ContoursFor(boxes))),
               grid_raises \in (IF raises THEN {FALSE} ELSE GridRaisesFor(boxes)) :
               SegmentationAgent_process(raises, boxes, contours, grid_raises)
    \/ \E g \in GradingsFor(state) : GradingAgent_process(g)
    \/ \E results \in WhenIdle(AgentResults), api_key \in BOOLEAN :
         fact_check_answers(results, api_key)
    \/ \E o \in EntryOutcomes : fact_check_answers_entry(o)
    \/ \E results \in WhenIdle(AgentResults), batch_size \in BatchSizes, api_key \in BOOLEAN :
         batch_fact_check(results, batch_size, api_key)
    \/ \E j \in job.pending : \E o \in FactOutcomes(Phase(j)) : batch_fact_check_task(j, o)
    \/ batch_fact_check_combine
    \/ batch_fact_check_next_batch

SpecAgents == InitStages /\ [][NextAgents]_vars

\* ================================================================== claims
\* an approve request is taken up in this step by slot p: it is either
\* answered at once or passes its checks
ApproveReceived(p) ==
    /\ pc[p] = "idle"
    /\ resp'[p].kind = "approve" \/ (pc'[p] # "idle" /\ req'[p].kind = "approve")

\* the read of the request taken up in this step by slot p returned the
\* submission: the request is not answered 404
ReadReturned(p) == ~(pc'[p] = "idle" /\ resp'[p].code = 404)

\* the approve request taken up in this step by slot p
ReceivedRequest(p) == IF pc'[p] = "idle" THEN resp'[p] ELSE req'[p]

\* the result list holds override o: the entry of o's question carries o's
\* score and feedback and the override mark
Holds(results, o) ==
    \E i \in DOMAIN results :
        /\ results[i].question_number = o.question_number
        /\ results[i].score = o.new_score
        /\ results[i].feedback = o.new_feedback
        /\ results[i].teacher_override

\* the totals of document d are the recomputation over its result list
TotalsRecomputed(d) ==
    /\ d.total_score = SumField(d.results, "score")
    /\ d.max_score = SumField(d.results, "max_score")
    /\ d.percentage = Percentage(d.total_score, d.max_score)

\* C1: no lost update between override requests on different questions.  When
\* the write of an override request that found its question in the list it
\* read goes through, the list afterwards holds that override and still holds every
\* override on another question that it held before the write, and the
\* persisted totals are the recomputation over the list.
C1_NoLostUpdate ==
    [][\A p \in Procs :
         (/\ pc[p] = "apply_write" /\ req[p].kind = "override" /\ resp'[p].code = 200
          /\ Holds(loc[p].results, req[p].overrides[1]))
         => /\ Holds(doc'.results, req[p].overrides[1])
            /\ \A i \in DOMAIN doc.results :
                 (doc.results[i].teacher_override
                    /\ doc.results[i].question_number
                         # req[p].overrides[1].question_number)
                 => (i \in DOMAIN doc'.results /\ doc'.results[i] = doc.results[i])
            /\ TotalsRecomputed(doc')]_vars

\* C2: an approve request by a teacher who does not own the submission, taken
\* up while the submission is in pending_review and read by the handler, is
\* answered 403 in that very step and leaves the whole document as it was,
\* overrides or not.
C2_ForeignTeacherRejected ==
    [][\A p \in Procs :
         (ApproveReceived(p) /\ doc.status = "pending_review" /\ ReadReturned(p)
            /\ ReceivedRequest(p).teacher_id # doc.teacher_id)
         => (pc'[p] = "idle" /\ resp'[p].code = 403 /\ doc' = doc)]_vars

\* C2 witness: a foreign teacher's approve request that carries an override was
\* just answered 403, and the submission is in pending_review with its results
C2_Witness ==
    \E p \in Procs :
        /\ resp[p].kind = "approve" /\ resp[p].code = 403
        /\ resp[p].teacher_id # doc.teacher_id
        /\ resp[p].overrides # <<>>
        /\ doc.status = "pending_review" /\ doc.has_results
        /\ doc.approved_by = None

\* C3: an approve request taken up while the status is anything but
\* pending_review is rejected in that step (400, or 404 when the handler's
\* read returned no submission) and leaves the document as it was; hence only
\* a request that found pending_review goes on to approve.
C3_ApproveOnlyFromPendingReview ==
    [][\A p \in Procs :
         (ApproveReceived(p) /\ doc.status # "pending_review")
         => /\ pc'[p] = "idle" /\ doc' = doc
            /\ resp'[p].code = IF ReadReturned(p) THEN 400 ELSE 404]_vars

\* C3 witness: the owning teacher's approve request on an already approved
\* submission was just answered 400
C3_Witness ==
    \E p \in Procs :
        /\ resp[p].kind = "approve" /\ resp[p].code = 400
        /\ resp[p].teacher_id = doc.teacher_id
        /\ doc.status = "approved"

\* C4: approved is terminal: no step takes a submission out of approved.
C4_ApprovedIsTerminal ==
    [][(doc.status = "approved" /\ doc'.exists) => doc'.status = "approved"]_vars

\* C5: a parent report that carries a submission's scores and results is
\* returned only for a submission that, as the operation read it, is approved
\* and belongs to the requesting student.
C5_ReportsOnlyApprovedOwn ==
    report.returned
    => /\ report.status = "approved"
       /\ report.student_id = report.requester

\* C5 witness: get_single_report returned the report of an approved
\* submission with results to its student
C5_Witness ==
    /\ report.returned
    /\ report.op = "single"
    /\ report.results # <<>>
    /\ report.requester = "student_001"

\* C6: whenever the status is approved, approved_by and approved_at are set;
\* when an approve request that carried overrides makes the submission
\* approved, the document already holds each of its overrides with the totals
\* recomputed; and a request whose override write failed does not approve.
C6_ApprovedAfterOverrides ==
    [][/\ doc'.status = "approved"
          => (doc'.approved_by # None /\ doc'.approved_at # None)
       /\ \A p \in Procs :
            (pc[p] = "approve_write" /\ doc'.status = "approved" /\ doc' # doc)
            => /\ \A i \in DOMAIN req[p].overrides :
                    Holds(doc.results, req[p].overrides[i])
               /\ req[p].overrides # <<>> => TotalsRecomputed(doc)
       /\ \A p \in Procs :
            (pc[p] = "apply_write" /\ req[p].kind = "approve" /\ resp'[p].code = 500)
            => (pc'[p] = "idle" /\ doc'.status = doc.status)]_vars

\* C7: a call of SegmentationAgent.process on a state whose status is not
\* "preprocessing_complete" returns with status "error" and the error message
\* set, runs no detection and leaves answer_boxes as they were on entry.
C7_SegmentationPrecondition ==
    (last_call.agent = "segmentation" /\ entry.status # "preprocessing_complete")
    => /\ last_call.outcome = "returned"
       /\ state.status = "error"
       /\ state.error = "Image preprocessing failed or was not run"
       /\ last_call.detect = 0
       /\ state.answer_boxes = entry.answer_boxes

\* C7 witness: segmentation was called on a state the workflow's preprocess
\* node marked "preprocessed", with answer boxes already present, and refused
C7_Witness ==
    /\ last_call.agent = "segmentation"
    /\ entry.status = "preprocessed"
    /\ entry.answer_boxes # None /\ entry.answer_boxes # <<>>
    /\ state.status = "error" /\ state.answer_boxes = entry.answer_boxes

\* C8: a call of GradingAgent.process on a state whose status is not
\* "segmentation_complete" returns at once with status "error" and error
\* "Segmentation failed or was not run", makes no scoring call and leaves
\* grades as they were on entry.
C8_GradingPrecondition ==
    (last_call.agent = "grading" /\ entry.status # "segmentation_complete")
    => /\ last_call.outcome = "returned"
       /\ state.status = "error"
       /\ state.error = "Segmentation failed or was not run"
       /\ last_call.score = 0
       /\ state.grades = entry.grades

\* C8 witness: grading was called on a state left in "error" by an earlier
\* stage, with regions and earlier grades present, and refused
C8_Witness ==
    /\ last_call.agent = "grading"
    /\ entry.status = "error"
    /\ entry.answer_boxes # None /\ entry.answer_boxes # <<>>
    /\ entry.grades # None
    /\ state.status = "error" /\ state.grades = entry.grades
    /\ state.error = "Segmentation failed or was not run"

\* C9: a pipeline run passes through all four stages and ends answered 200
\* with the results stored and the submission in pending_review.
C9_RunEndsInPendingReview ==
    [][\A p \in Procs :
         resp'[p].kind = "process"
         => /\ resp'[p].code = 200
            /\ stage_log[p] = StageOrder
            /\ doc'.status = "pending_review"
            /\ doc'.has_results]_vars

\* the nodes of the workflow graph that stand for stages of the fixed order
WorkflowStages == <<"preprocess", "segment", "grade">>

C11_ErrorHalts ==
    [][state.status = "error"
         => /\ state'.status = "error"
            /\ state'.error # None
            /\ state'.answer_boxes = state.answer_boxes
            /\ state'.grades = state.grades]_vars

\* C11 witness: segmentation refused the state and set "error", and grading,
\* called on that state afterwards, left it in "error" with a message
C11_Witness ==
    /\ last_call.agent = "grading"
    /\ entry.status = "error"
    /\ entry.error = "Image preprocessing failed or was not run"
    /\ state.status = "error" /\ state.error # None
    /\ state.grades = entry.grades

\* C12: every pipeline run that has written status "processing" comes to an
\* end, and at its end the persisted status of the submission, if it is still
\* stored, is pending_review or error, and it is error when the run failed.
C12_RunEndsMarked ==
    \A p \in Procs :
        (pc[p] = "ps_stage")
        ~> (/\ resp[p].kind = "process"
            /\ doc.exists => (/\ doc.status \in {"pending_review", "error"}
                              /\ resp[p].code # 200 => doc.status = "error"))

\* C13: every result of grading one answer has 0 <= score <= max_score,
\* 0 <= partial_credit <= 1 and 0 <= confidence <= 1, whatever the response.
C13_GradesClamped ==
    grade # NoGrade
    => /\ 0 <= grade.score /\ grade.score <= scoring.max_score
       /\ 0 <= grade.partial_credit /\ grade.partial_credit <= 10
       /\ 0 <= grade.confidence /\ grade.confidence <= 10

\* C14: every entry with status success of the persisted results has
\* score <= max_score, whatever gradings and overrides were applied.
C14_ScoreWithinMax ==
    \A i \in DOMAIN doc.results :
        doc.results[i].status = "success"
        => doc.results[i].score <= doc.results[i].max_score

\* the indices of the entries of a result list whose status is success
SuccessEntries(results) == { i \in DOMAIN results : results[i].status = "success" }

RECURSIVE ScoreOver(_, _)
\* the sum of score over the entries with index in S
ScoreOver(results, S) ==
    IF S = {} THEN 0
    ELSE LET i == CHOOSE j \in S : TRUE
         IN results[i].score + ScoreOver(results, S \ {i})

RECURSIVE MaxScoreOver(_, _)
\* the sum of max_score over the entries with index in S
MaxScoreOver(results, S) ==
    IF S = {} THEN 0
    ELSE LET i == CHOOSE j \in S : TRUE
         IN results[i].max_score + MaxScoreOver(results, S \ {i})

\* C15: in every state the persisted total_score is the sum of score, and the
\* persisted max_score the sum of max_score, over exactly the success entries
\* of the persisted results; error entries contribute nothing.
C15_TotalsMatchResults ==
    /\ doc.total_score = ScoreOver(doc.results, SuccessEntries(doc.results))
    /\ doc.max_score = MaxScoreOver(doc.results, SuccessEntries(doc.results))

\* C15 witness: overrides were written onto a list with an error entry that
\* now carries a score, next to a success entry
C15_Witness ==
    /\ doc.teacher_overrides_applied
    /\ \E i \in DOMAIN doc.results :
          doc.results[i].status = "error" /\ doc.results[i].score > 0
    /\ doc.max_score > 0

\* C16: the persisted percentage is total_score / max_score * 100 rounded to
\* two decimals when max_score > 0, and 0 when max_score is 0.
C16_PercentageRounded ==
    IF doc.max_score > 0
      THEN doc.percentage \in Round2(Percentage(doc.total_score, doc.max_score),
                                     PercentageTie(doc.total_score, doc.max_score))
      ELSE doc.percentage = 0

\* C17: a pipeline run on the submission with three regions, key maxima 1, 1
\* and 2 and AI scores 1, 1 and 1 ends with three persisted results,
\* total_score 3, max_score 4 and percentage 75.0.  (What a run does up to its
\* end depends on none of these inputs, see process_submission_step, so every
\* run of the model is a run on that submission.)
C17_ScenarioTotals ==
    [][\A p \in Procs :
         (resp'[p].kind = "process" /\ ~doc.has_results)
         => /\ doc'.has_results /\ Len(doc'.results) = 3
            /\ doc'.total_score = 3
            /\ doc'.max_score = 4
            /\ doc'.percentage = 750000]_vars

\* entry r rewritten by override o
Overridden(r, o) ==
    [r EXCEPT !.score = o.new_score, !.feedback = o.new_feedback,
              !.teacher_override = TRUE, !.override_reason = o.reason]

\* list new is list old with exactly the entry of o's question rewritten
\* by o, and totals are the recomputation over new
AppliedTo(old, o, new, totals) ==
    /\ DOMAIN new = DOMAIN old
    /\ \A i \in DOMAIN old :
         new[i] = IF old[i].question_number = o.question_number
                    THEN Overridden(old[i], o) ELSE old[i]
    /\ totals.total_score = ScoreOver(new, SuccessEntries(new))
    /\ totals.max_score = MaxScoreOver(new, SuccessEntries(new))
    /\ totals.percentage = Percentage(totals.total_score, totals.max_score)

\* C18: applying one teacher override rewrites exactly the result of its
\* question (score, feedback, override mark, reason), leaves every other
\* result as it was read, recomputes the totals, and writes list and totals to
\* the document; with scores (1,1,1) of maxima (1,1,2) and question 3
\* overridden to 2 the totals are 4 of 4, 100.0 percent.
C18_OverrideApplied ==
    [][\A p \in Procs :
         /\ (pc[p] = "apply_read" /\ pc'[p] = "apply_write")
            => LET o == req[p].overrides[1]
               IN /\ AppliedTo(doc.results, o, loc'[p].results, loc'[p])
                  /\ (/\ doc.results = <<OkResult(1, 1, 1), OkResult(2, 1, 1),
                                         OkResult(3, 1, 2)>>
                      /\ o.question_number = 3 /\ o.new_score = 2)
                     => (/\ loc'[p].total_score = 4 /\ loc'[p].max_score = 4
                         /\ loc'[p].percentage = 1000000)
         /\ (pc[p] = "apply_write" /\ (resp'[p].code = 200 \/ pc'[p] = "approve_write"))
            => /\ doc'.results = loc[p].results
               /\ doc'.total_score = loc[p].total_score
               /\ doc'.max_score = loc[p].max_score
               /\ doc'.percentage = loc[p].percentage]_vars

\* C18 witness: the override of question 3 to 2 was just written onto scores
\* (1,1,1) of maxima (1,1,2): question 3 carries the mark and the reason, the
\* other two are untouched, and the totals are 4 of 4, 100.0 percent
C18_Witness ==
    \E p \in Procs :
        /\ resp[p].kind = "override" /\ resp[p].code = 200
        /\ resp[p].overrides[1].question_number = 3
        /\ doc.results = <<OkResult(1, 1, 1), OkResult(2, 1, 1),
                           Overridden(OkResult(3, 1, 2), resp[p].overrides[1])>>
        /\ doc.results[3].score = 2 /\ doc.results[3].teacher_override
        /\ doc.results[3].override_reason = "generous grading"
        /\ doc.total_score = 4 /\ doc.max_score = 4 /\ doc.percentage = 1000000

\* C19: when the Grading stage completes, status is "grading_complete" and
\* grades has one entry per element of answer_boxes, at the same index and
\* with the same question_number; with no boxes, grades is empty.
C19_OneGradePerRegion ==
    (last_call.agent = "grading" /\ entry.status = "segmentation_complete"
       /\ last_call.outcome = "returned")
    => /\ state.status = "grading_complete"
       /\ Len(state.grades) = Len(entry.answer_boxes)
       /\ \A i \in DOMAIN state.grades :
            state.grades[i].question_number = entry.answer_boxes[i].question_number

\* C19 witness: grading completed on two regions, the first of which failed
\* and the second of which was scored
C19_Witness ==
    /\ last_call.agent = "grading" /\ entry.status = "segmentation_complete"
    /\ state.status = "grading_complete"
    /\ Len(state.grades) = 2
    /\ state.grades[1].status = "error" /\ state.grades[2].status = "success"
    /\ state.grades[2].question_number = entry.answer_boxes[2].question_number

\* C20: when the AI scoring call for a region raises, the stage still ends
\* with status "grading_complete" and one entry per region, and the entry of
\* that region has status "error".
C20_FailedCallMarked ==
    (last_call.agent = "grading" /\ entry.status = "segmentation_complete"
       /\ last_call.outcome = "returned")
    => /\ state.status = "grading_complete"
       /\ Len(state.grades) = Len(entry.answer_boxes)
       /\ \A i \in last_call.ai_raised : state.grades[i].status = "error"

\* C21: a response that lacks the numeric score or cannot be loaded as
\* structured data is accepted only with the grade the text-pattern extraction
\* gives for it; no grade carries a score that comes neither from the
\* structured data nor from that extraction.
C21_TextExtractionBeforeAccept ==
    (grade # NoGrade /\ scoring.mode \in {"json_no_score", "bad_json", "text"})
    => /\ ~_extract_grades_from_text(scoring).raised
       /\ grade = _extract_grades_from_text(scoring).grade

\* C22: when fact_check_answers or batch_fact_check has returned, every entry
\* whose grading status is not success carries the annotation {status:
\* "skipped", reason: "grading failed"}, no fact-check call was attempted for
\* it, and fact-checking the annotated entry again gives the same entry.
C22_FailedGradesSkipped ==
    (job.op \in {"fact_check_answers", "batch_fact_check"} /\ job.returned)
    => \A i \in DOMAIN job.input :
          job.input[i].status # "success"
          => /\ out[i].fact_check = Skipped
             /\ i \notin job.called
             /\ SkippedEntry(out[i]) = out[i]

\* C23: when fact_check_answers has returned, every graded question whose
\* external call failed carries an annotation with status "error" and the
\* message, and no entry whose call did not fail, and from whose check no
\* exception got out, carries an error annotation.
C23_FailedCallAnnotated ==
    (job.op = "fact_check_answers" /\ job.returned)
    => /\ \A i \in job.failed :
             /\ out[i].fact_check.status = "error"
             /\ "error" \in DOMAIN out[i].fact_check
       /\ \A i \in DOMAIN job.input \ (job.failed \cup job.raised) :
             out[i].fact_check.status # "error"

\* C28: when batch_fact_check has returned, the output has one entry per
\* input entry, the entry at index i is the input entry at index i with its
\* annotation, whatever order the tasks of a batch ended in; an entry whose
\* task raised carries the error annotation with the message, and every
\* other entry carries what its own task returned.
C28_BatchKeepsIndex ==
    (job.op = "batch_fact_check" /\ job.returned)
    => /\ Len(out) = Len(job.input)
       /\ \A i \in DOMAIN job.input :
             /\ \A f \in DOMAIN job.input[i] : out[i][f] = job.input[i][f]
             /\ i \in job.raised
                => out[i].fact_check = [status |-> "error",
                                        error |-> job.values[i].exception]
             /\ i \notin job.raised => out[i].fact_check = job.values[i]

\* C28 witness: three entries in batches of two; in the first batch the task
\* of entry 2 ended first, by raising, and entries 1 and 3 were annotated
C28_Witness ==
    /\ job.op = "batch_fact_check" /\ job.returned
    /\ Len(job.input) = 3 /\ job.batch_size = 2
    /\ job.order = <<2, 1, 3>>
    /\ job.raised = {2}
    /\ out[2].fact_check.status = "error"
    /\ out[1].fact_check.status = "success"
    /\ out[3].fact_check.status = "success"

\* C24: when process_images has returned, the output has exactly one record
\* per input path, in input order; the record of an image that was enhanced
\* has status success with its processed path and dimensions, and the record
\* of an image that could not be loaded or on which a step failed has status
\* error with a message.
C24_OneRecordPerImage ==
    (job.op = "process_images" /\ job.returned)
    => /\ Len(out) = Len(job.input)
       /\ \A i \in DOMAIN job.input :
             /\ out[i].original_path = i
             /\ IF job.input[i].kind = "ok"
                  THEN /\ out[i].status = "success"
                       /\ out[i].processed_path = i
                       /\ out[i].dimensions = job.input[i].shape
                  ELSE /\ out[i].status = "error"
                       /\ "error" \in DOMAIN out[i]

\* C25: after a segmentation that took the grid fallback, the regions are in
\* ascending y1 order and a region with a smaller y1 has a smaller
\* question_number, whatever order the contours were found in.
C25_GridNumberedTopToBottom ==
    (last_call.agent = "segmentation" /\ last_call.detect = 1
       /\ state.status = "segmentation_complete")
    => \A a, b \in DOMAIN state.answer_boxes :
          (/\ state.answer_boxes[a].detection_method = "grid"
           /\ state.answer_boxes[b].detection_method = "grid")
          => /\ a < b => state.answer_boxes[a].y1 <= state.answer_boxes[b].y1
             /\ state.answer_boxes[a].y1 < state.answer_boxes[b].y1
                => state.answer_boxes[a].question_number
                     < state.answer_boxes[b].question_number

\* C26: in every state the stages reach, error is set exactly when status is
\* an error state ("error", or "failed" of the workflow).
C26_ErrorIffErrorStatus ==
    (state.error # None) <=> (state.status \in {"error", "failed"})

\* C26 witness: segmentation took a state without an error, its detection
\* raised, and it left status "error" with the message
C26_Witness ==
    /\ last_call.agent = "segmentation"
    /\ entry.status = "preprocessing_complete" /\ entry.error = None
    /\ state.status = "error" /\ state.error = "detection failed"

\* the fields of a GradingState the caller owns
CallerFields == {"submission_id", "exam_id", "image_path", "answer_key"}

\* C27: a call of Segmentation leaves submission_id, exam_id, image_path and
\* answer_key as they were; a call of Grading leaves these and answer_boxes as
\* they were; fact_check_answers and batch_fact_check leave the state alone,
\* and every entry they have put together or returned is the grading result
\* at its index with every field unchanged and the one field fact_check
\* added.
C27_EarlierFieldsKept ==
    [][/\ (calls' = calls + 1 /\ last_call'.agent = "segmentation")
          => \A f \in CallerFields : state'[f] = state[f]
       /\ (calls' = calls + 1 /\ last_call'.agent = "grading")
          => /\ \A f \in CallerFields : state'[f] = state[f]
             /\ state'.answer_boxes = state.answer_boxes
       /\ (job' # job /\ job'.op \in {"fact_check_answers", "batch_fact_check"})
          => /\ state' = state
             /\ job'.returned => (out' = job'.acc /\ Len(out') = Len(job'.input))
             /\ \A i \in DOMAIN job'.acc :
                   /\ DOMAIN job'.acc[i] = DOMAIN job'.input[i] \cup {"fact_check"}
                   /\ \A f \in DOMAIN job'.input[i] : job'.acc[i][f] = job'.input[i][f]]_vars

\* C27 witness: segmentation found a region, grading graded it, and
\* batch_fact_check returned a graded entry and a failed one annotated, the
\* external call for the graded one having failed
C27_Witness ==
    /\ state.status = "grading_complete"
    /\ Len(state.answer_boxes) = 1
    /\ Len(state.grades) = 1
    /\ job.op = "batch_fact_check" /\ job.returned
    /\ Len(out) = 2
    /\ job.failed = {1}
    /\ out[1].fact_check.status = "success"
    /\ out[1].score = job.input[1].score
    /\ out[2].status = "error"

\* C29: in every persisted state of the submission the status is one of
\* uploaded, processing, pending_review, approved, error.
C29_StatusInEnum == doc.exists => doc.status \in EnumStatuses

\* C30: once an approve request has made the submission approved, no write of
\* an override or approve request changes its results, its total_score, its
\* max_score or its percentage.
C30_ApprovedResultsFixed ==
    [][\A p \in Procs :
         (/\ doc.status = "approved" /\ doc.approved_by # None /\ doc'.exists
          /\ req[p].kind \in {"override", "approve"}
          /\ pc[p] \in {"apply_write", "approve_write"} /\ pc'[p] # pc[p])
         => /\ doc'.results = doc.results
            /\ doc'.total_score = doc.total_score
            /\ doc'.max_score = doc.max_score
            /\ doc'.percentage = doc.percentage]_vars
====
